---- MODULE Spec2Model ----
(***************************************************************************)
(* Model of meshcat/visualizer.py: the ViewerWindow life cycle (spawn a    *)
(* server and parse its two-line handshake, or attach to a running one),   *)
(* the request/reply discipline on the zmq REQ socket, and the Visualizer  *)
(* views that address commands to paths of the scene tree.                 *)
(*                                                                         *)
(* Python strings are sequences of one-character strings; a bytes object   *)
(* is the record [bytes |-> <characters>], so that encoding and decoding   *)
(* are visible in the model.                                               *)
(***************************************************************************)
EXTENDS Integers, Sequences, FiniteSets, TLC

\* ------------------------------------------------------------------ bounds
\* Requests a caller may issue after construction.
MaxOps == 2
\* Visualizer objects a run creates.
MaxViews == 3

\* Most command-line arguments after the script name.
MaxArgv == 3

\* Most server processes spawned by a sequence of constructor calls.
MaxSpawns == 4

\* ------------------------------------------------------------ string data
ZMQ_PATTERN_PREFIX == <<"z", "m", "q", "_", "u", "r", "l", "=">>
WEB_PATTERN_PREFIX == <<"w", "e", "b", "_", "u", "r", "l", "=">>

S_url == <<"u", "r", "l">>
S_wait == <<"w", "a", "i", "t">>
S_get_scene == <<"g", "e", "t", "_", "s", "c", "e", "n", "e">>
S_set_object == <<"s", "e", "t", "_", "o", "b", "j", "e", "c", "t">>
S_set_transform == <<"s", "e", "t", "_", "t", "r", "a", "n", "s", "f", "o", "r", "m">>
S_set_animation == <<"s", "e", "t", "_", "a", "n", "i", "m", "a", "t", "i", "o", "n">>
S_delete == <<"d", "e", "l", "e", "t", "e">>
S_meshcat == <<"m", "e", "s", "h", "c", "a", "t">>
S_zmq_flag == <<"-", "-", "z", "m", "q", "-", "u", "r", "l">>
S_ok == <<"o", "k">>
S_html == <<"<", "h", "t", "m", "l", ">">>

\* The None object; no Python string equals it.
None == <<"<None>">>
\* An attribute that has not been assigned yet.
Unset == <<"<unset>">>

\* The URLs of the handshake example.
ZmqExample == <<"t", "c", "p", ":", "/", "/", "1", "2", "7", ".", "0", ".", "0", ".", "1", ":", "9", "0", "0", "0">>
WebExample == <<"h", "t", "t", "p", ":", "/", "/", "1", "2", "7", ".", "0", ".", "0", ".", "1", ":", "8", "0", "8", "0">>
\* The endpoint a caller attaches to, and the URL such a server answers.
ZmqArg == <<"t", "c", "p", ":", "/", "/", "h", ":", "6">>
WebReply == <<"h", "t", "t", "p", ":", "/", "/", "h", ":", "7">>

\* Lines a spawned server may write to its standard output.
LineZmq == ZMQ_PATTERN_PREFIX \o ZmqExample \o <<"\n">>
LineWeb == WEB_PATTERN_PREFIX \o WebExample \o <<"\n">>
LineGarbage == <<"g", "a", "r", "b", "a", "g", "e", "\n">>
ServerLines == {LineZmq, LineWeb, LineGarbage}

\* Path segments a caller indexes a view with.
Segs == {<<"a">>, <<"b">>}

\* ------------------------------------------------------------ conversions
B(s) == [bytes |-> s]

\* str.encode("utf-8") and bytes.decode("utf-8") on ASCII text.
Encode(s) == [bytes |-> s]
Decode(b) == b.bytes

Whitespace == {" ", "\n", "\t", "\r"}

RECURSIVE LStrip(_)
LStrip(s) ==
    IF s # <<>> /\ Head(s) \in Whitespace THEN LStrip(Tail(s)) ELSE s

RECURSIVE RStrip(_)
RStrip(s) ==
    IF s # <<>> /\ s[Len(s)] \in Whitespace
    THEN RStrip(SubSeq(s, 1, Len(s) - 1))
    ELSE s

\* bytes.strip()
Strip(b) == [bytes |-> RStrip(LStrip(b.bytes))]

\* re.match("^<prefix>(.*)$", s): the prefix at position 1, then characters
\* other than newline up to the end of s or to a newline that ends s.
ReMatch(prefix, s) ==
    /\ Len(s) >= Len(prefix)
    /\ SubSeq(s, 1, Len(prefix)) = prefix
    /\ \A i \in (Len(prefix) + 1)..Len(s) : s[i] = "\n" => i = Len(s)

ReGroup1(prefix, s) ==
    LET rest == SubSeq(s, Len(prefix) + 1, Len(s))
    IN  IF rest # <<>> /\ rest[Len(rest)] = "\n"
        THEN SubSeq(rest, 1, Len(rest) - 1)
        ELSE rest

\* capture without the check of the match: a line that does not match is
\* returned whole.
capture_unchecked(prefix, s) ==
    IF ~ReMatch(prefix, s)
    THEN [raised |-> FALSE, value |-> s]
    ELSE [raised |-> FALSE, value |-> ReGroup1(prefix, s)]

\* capture(pattern, s): the first group, or a raised ValueError.
capture(prefix, s) ==
    IF ~ReMatch(prefix, s)
    THEN [raised |-> TRUE, value |-> None]
    ELSE [raised |-> FALSE, value |-> ReGroup1(prefix, s)]

match_zmq_url(line) == capture(ZMQ_PATTERN_PREFIX, line)

match_web_url(line) == capture(WEB_PATTERN_PREFIX, line)

\* ------------------------------------------------------- paths, commands
\* Path(("meshcat",))
RootPath == <<S_meshcat>>

\* Path.append: a new path, the old segments followed by the new one.
PathAppend(path, seg) == Append(path, seg)

\* Path.lower: the segments joined by "/".
RECURSIVE PathLower(_)
PathLower(path) ==
    IF path = <<>> THEN <<>>
    ELSE IF Len(path) = 1 THEN path[1]
    ELSE path[1] \o <<"/">> \o PathLower(Tail(path))

\* The path of a command that was built without one.
NoPath == <<>>

\* Command constructors; a command is (kind, path, kind-specific fields).
SetObject(geometry, material, path) ==
    [kind |-> S_set_object, path |-> path, fields |-> <<geometry, material>>]

SetTransform(matrix, path) ==
    [kind |-> S_set_transform, path |-> path, fields |-> <<matrix>>]

Delete(path) ==
    [kind |-> S_delete, path |-> path, fields |-> <<>>]

SetAnimation(animation, play, repetitions) ==
    [kind |-> S_set_animation, path |-> NoPath,
     fields |-> <<animation, play, repetitions>>]

\* command.lower(): the mapping that is packed and sent.
Lower(command) ==
    [type |-> command.kind, path |-> PathLower(command.path),
     fields |-> command.fields]

\* umsgpack.packb
Packb(cmd_data) == [bytes |-> <<"msgpack">>, of |-> cmd_data]

\* Opaque payloads of the commands.
Geometry == <<"<Box>">>
Material == None
Matrix == <<"<eye(4)>">>
Animation == <<"<Animation>">>
S_box == <<"b", "o", "x">>

\* Commands a caller hands to ViewerWindow.send directly.
DirectCommands == {SetTransform(Matrix, <<S_meshcat, S_box>>)}

\* [sys.executable, "-u", "-m", "meshcat.servers.zmqserver"]
ServerCommand ==
    << <<"<sys.executable>">>, <<"-", "u">>, <<"-", "m">>,
       <<"<meshcat.servers.zmqserver>">> >>

\* Argument lists a caller passes to a constructor.
ArgLists == {<<>>, << <<"-", "x">> >>}

\* ------------------------------------------------------------------ state
Main == "main"
Other == "other"
Callers == {Main, Other}

\* The one ViewerWindow object, as views refer to it.
WindowRef == <<"<ViewerWindow>">>
ProcRef == <<"<Popen>">>
NoView == [window |-> None, path |-> NoPath]
NoCall == [op |-> "none", view |-> NoView]

VARIABLES
    callers,       \* the threads of the client process that run
    pc,            \* where each caller stands
    call,          \* the request-bearing method each caller last entered
    result,        \* what the caller's last method returned
    error,         \* the last exception raised to each caller
    windows,       \* number of ViewerWindow objects constructed
    proc,          \* the spawned server process
    lines,         \* the lines read from its standard output so far
    server_proc,   \* ViewerWindow.server_proc
    zmq_url,       \* ViewerWindow.zmq_url
    web_url,       \* ViewerWindow.web_url
    resolved,      \* number of assignments to web_url
    sockets,       \* every socket the shared zmq context has created
    zmq_socket,    \* ViewerWindow.zmq_socket, an index into sockets (0: unset)
    atexit_hooks,  \* functions registered with atexit
    exited,        \* the client process has exited
    views,         \* the Visualizer objects
    opened,        \* URLs handed to webbrowser.open
    printed,       \* URLs printed by the constructor
    argv,          \* sys.argv when the module runs as a script
    arglist,       \* the contents of the argument list objects
    popen_args     \* the argument list of every subprocess.Popen call

vars ==
    <<callers, pc, call, result, error, windows, proc, lines,
      server_proc, zmq_url, web_url, resolved, sockets, zmq_socket,
      atexit_hooks, exited, views, opened, printed, argv, arglist,
      popen_args>>

NoProc == [state |-> "none", args |-> <<>>]

\* The argument list objects: the default list of Visualizer.__init__ and a
\* list the caller owns.
DefaultArgs == "default"
CallerArgs == "caller"
NoArgv == <<>>

\* What the two lists hold before any constructor is called.
InitialArgs ==
    [r \in {DefaultArgs, CallerArgs} |->
        IF r = DefaultArgs THEN <<>> ELSE << <<"-", "x">> >>]

\* A client process in which nothing has been constructed yet.
Fresh ==
    /\ pc = [t \in Callers |-> "new"]
    /\ call = [t \in Callers |-> NoCall]
    /\ result = [t \in Callers |-> None]
    /\ error = [t \in Callers |-> "none"]
    /\ windows = 0
    /\ proc = NoProc
    /\ lines = <<>>
    /\ server_proc = Unset
    /\ zmq_url = Unset
    /\ web_url = Unset
    /\ resolved = 0
    /\ sockets = <<>>
    /\ zmq_socket = 0
    /\ atexit_hooks = {}
    /\ exited = FALSE
    /\ views = {}
    /\ opened = {}
    /\ printed = <<>>
    /\ popen_args = <<>>

\* The library is imported: the module does not run as a script.
Init ==
    /\ Fresh
    /\ callers = {Main}
    /\ argv = NoArgv
    /\ arglist = InitialArgs

\* ---------------------------------------------------------------- sockets
\* context.socket(zmq.REQ) followed by connect(url): a fresh socket.  sent
\* and received count the requests sent and the replies received on it,
\* last is the latest request, pending what the peer has not answered yet,
\* inbox the replies that arrived and were not received yet; closed tells
\* whether close() was called on the socket.
NewSocket(url) ==
    [endpoint |-> url, sent |-> 0, received |-> 0, last |-> <<>>,
     pending |-> <<>>, inbox |-> <<>>, closed |-> FALSE]

\* connect_zmq that closes the socket it replaces.
connect_zmq_closes_previous(socks, url) ==
    [sockets |->
        Append([i \in 1..Len(socks) |->
                   [socks[i] EXCEPT !.closed = (i = Len(socks)) \/ @]],
               NewSocket(url)),
     zmq_socket |-> Len(socks) + 1]

\* connect_zmq that creates the socket and leaves it unconnected.
connect_zmq_no_connect(socks, url) ==
    [sockets |-> Append(socks, NewSocket(None)), zmq_socket |-> Len(socks) + 1]

\* ViewerWindow.connect_zmq: the sockets and the socket attribute after it.
connect_zmq(socks, url) ==
    [sockets |-> Append(socks, NewSocket(url)), zmq_socket |-> Len(socks) + 1]

\* zmq_socket.send / send_multipart
SockSend(socks, i, frames) ==
    [socks EXCEPT ![i].sent = @ + 1,
                  ![i].last = frames,
                  ![i].pending = Append(@, frames)]

\* zmq_socket.recv blocks until a reply is there
CanRecv(socks, i) == i > 0 /\ socks[i].inbox # <<>>

RecvFrame(socks, i) == Head(socks[i].inbox)

SockRecv(socks, i) ==
    [socks EXCEPT ![i].received = @ + 1, ![i].inbox = Tail(@)]

\* What the server answers to a request.
ReplyPayloads(frames) ==
    IF frames = <<B(S_url)>> THEN {WebReply}
    ELSE IF frames = <<B(S_wait)>> THEN {S_ok, S_meshcat}
    ELSE IF frames = <<B(S_get_scene)>> THEN {S_html}
    ELSE {S_ok}

Payloads == {WebReply, S_ok, S_meshcat, S_html}

\* The server answers the oldest unanswered request of a socket.
PeerReply(i, p) ==
    /\ ~exited
    /\ sockets[i].pending # <<>>
    /\ p \in ReplyPayloads(Head(sockets[i].pending))
    /\ sockets' = [sockets EXCEPT ![i].pending = Tail(@),
                                  ![i].inbox = Append(@, B(p))]
    /\ UNCHANGED <<argv, arglist, popen_args,
                   callers, pc, call, result, error, windows, proc,
                   lines, server_proc, zmq_url, web_url, resolved, zmq_socket,
                   atexit_hooks, exited, views, opened, printed>>

\* ----------------------------------------------------------- construction
\* Visualizer.__init__ with a window given: a view of that window at the root.
Visualizer_init_window(window) == [window |-> window, path |-> RootPath]

\* The Visualizer objects after a constructor call that was made by
\* Visualizer.__init__ (via = "Visualizer") or by the caller itself.
ViewsAfterInit(via) ==
    IF via = "Visualizer" THEN {Visualizer_init_window(WindowRef)} ELSE {}

\* The argument list handed to subprocess.Popen.
ServerArgs(zu, args) ==
    LET base == ServerCommand \o args
    IN  IF zu # None THEN Append(Append(base, S_zmq_flag), zu) ELSE base

\* ViewerWindow.__init__ up to its first blocking call.  In spawn mode that
\* is the first readline on the server's output; in attach mode it is the
\* recv of request_web_url.
ViewerWindow_init(zu, start_server, args, via) ==
    /\ pc[Main] = "new"
    /\ ~exited
    /\ ~start_server => zu # None
    /\ windows' = windows + 1
    /\ call' = [call EXCEPT ![Main] = [op |-> via, view |-> NoView]]
    /\ IF start_server
       THEN /\ proc' = [state |-> "running", args |-> ServerArgs(zu, args)]
            /\ popen_args' = Append(popen_args, ServerArgs(zu, args))
            /\ server_proc' = ProcRef
            /\ pc' = [pc EXCEPT ![Main] = "readline1"]
            /\ UNCHANGED <<zmq_url, sockets, zmq_socket>>
       ELSE LET c == connect_zmq(sockets, zu)
            IN  /\ server_proc' = None
                /\ zmq_url' = zu
                /\ sockets' = SockSend(c.sockets, c.zmq_socket, <<B(S_url)>>)
                /\ zmq_socket' = c.zmq_socket
                /\ pc' = [pc EXCEPT ![Main] = "url_recv"]
                /\ UNCHANGED <<proc, popen_args>>
    /\ UNCHANGED <<argv, arglist, callers, result, error, lines, web_url,
                   resolved, atexit_hooks, exited, views, opened, printed>>

\* Visualizer(zmq_url, args=args) that starts a server whatever zmq_url is.
Visualizer_init_always_spawn(zu, args) ==
    ViewerWindow_init(zu, TRUE, args, "Visualizer")

\* Visualizer(zmq_url, args=args): start_server is (zmq_url is None).
Visualizer_init(zu, args) ==
    ViewerWindow_init(zu, zu = None, args, "Visualizer")

\* The constructor raises: nothing after the raising statement runs.
InitRaises(exc) ==
    /\ pc' = [pc EXCEPT ![Main] = "failed"]
    /\ error' = [error EXCEPT ![Main] = exc]

\* The first readline with the socket connected as soon as zmq_url is known,
\* before the second line is checked.
ViewerWindow_init_readline1_connects(line) ==
    /\ pc[Main] = "readline1"
    /\ ~exited
    /\ lines' = Append(lines, line)
    /\ LET m == match_zmq_url(Decode(Strip(B(line))))
       IN  IF m.raised
           THEN /\ InitRaises("ValueError")
                /\ UNCHANGED <<zmq_url, sockets, zmq_socket>>
           ELSE LET c == connect_zmq(sockets, m.value)
                IN  /\ zmq_url' = m.value
                    /\ sockets' = c.sockets
                    /\ zmq_socket' = c.zmq_socket
                    /\ pc' = [pc EXCEPT ![Main] = "readline2"]
                    /\ UNCHANGED error
    /\ UNCHANGED <<argv, arglist, popen_args,
                   callers, call, result, windows, proc, server_proc,
                   web_url, resolved, atexit_hooks, exited, views, opened,
                   printed>>

\* Line 48: the first line of the server's output, stripped and decoded,
\* must match the zmq_url pattern.
ViewerWindow_init_readline1(line) ==
    /\ pc[Main] = "readline1"
    /\ ~exited
    /\ lines' = Append(lines, line)
    /\ LET m == match_zmq_url(Decode(Strip(B(line))))
       IN  IF m.raised
           THEN /\ InitRaises("ValueError")
                /\ UNCHANGED zmq_url
           ELSE /\ zmq_url' = m.value
                /\ pc' = [pc EXCEPT ![Main] = "readline2"]
                /\ UNCHANGED error
    /\ UNCHANGED <<argv, arglist, popen_args,
                   callers, call, result, windows, proc, server_proc,
                   web_url, resolved, sockets, zmq_socket, atexit_hooks,
                   exited, views, opened, printed>>

\* Lines 49-71 in spawn mode: the second line must match the web_url
\* pattern; then the cleanup hook is registered, the socket is connected
\* and the URL is printed.
ViewerWindow_init_readline2(line) ==
    /\ pc[Main] = "readline2"
    /\ ~exited
    /\ lines' = Append(lines, line)
    /\ LET m == match_web_url(Decode(Strip(B(line))))
       IN  IF m.raised
           THEN /\ InitRaises("ValueError")
                /\ UNCHANGED <<web_url, resolved, atexit_hooks, sockets,
                               zmq_socket, printed, views>>
           ELSE LET c == connect_zmq(sockets, zmq_url)
                IN  /\ web_url' = m.value
                    /\ resolved' = resolved + 1
                    /\ atexit_hooks' = atexit_hooks \cup {"cleanup"}
                    /\ sockets' = c.sockets
                    /\ zmq_socket' = c.zmq_socket
                    /\ printed' = Append(printed, m.value)
                    /\ views' = ViewsAfterInit(call[Main].op)
                    /\ pc' = [t \in Callers |-> "ready"]
                    /\ UNCHANGED error
    /\ UNCHANGED <<argv, arglist, popen_args,
                   callers, call, result, windows, proc, server_proc,
                   zmq_url, exited, opened>>

\* The end of attach-mode construction without the second connect_zmq.
ViewerWindow_init_recv_url_same_socket ==
    /\ pc[Main] = "url_recv"
    /\ ~exited
    /\ CanRecv(sockets, zmq_socket)
    /\ LET response == Decode(RecvFrame(sockets, zmq_socket))
       IN  /\ web_url' = response
           /\ resolved' = resolved + 1
           /\ sockets' = SockRecv(sockets, zmq_socket)
           /\ printed' = Append(printed, response)
    /\ views' = ViewsAfterInit(call[Main].op)
    /\ pc' = [t \in Callers |-> "ready"]
    /\ UNCHANGED <<argv, arglist, popen_args,
                   callers, call, result, error, windows, proc, lines,
                   server_proc, zmq_url, zmq_socket, atexit_hooks, exited,
                   opened>>

\* Lines 64-71 in attach mode: the reply to "url" becomes web_url, then the
\* socket is replaced by a fresh one.
ViewerWindow_init_recv_url ==
    /\ pc[Main] = "url_recv"
    /\ ~exited
    /\ CanRecv(sockets, zmq_socket)
    /\ LET response == Decode(RecvFrame(sockets, zmq_socket))
           c == connect_zmq(SockRecv(sockets, zmq_socket), zmq_url)
       IN  /\ web_url' = response
           /\ resolved' = resolved + 1
           /\ sockets' = c.sockets
           /\ zmq_socket' = c.zmq_socket
           /\ printed' = Append(printed, response)
    /\ views' = ViewsAfterInit(call[Main].op)
    /\ pc' = [t \in Callers |-> "ready"]
    /\ UNCHANGED <<argv, arglist, popen_args,
                   callers, call, result, error, windows, proc, lines,
                   server_proc, zmq_url, atexit_hooks, exited, opened>>

\* Visualizer(window=window) on the constructed window.
Visualizer_new(t) ==
    /\ t \in callers
    /\ pc[t] = "ready"
    /\ ~exited
    /\ views' = views \cup {Visualizer_init_window(WindowRef)}
    /\ UNCHANGED <<argv, arglist, popen_args,
                   callers, pc, call, result, error, windows, proc, lines,
                   server_proc, zmq_url, web_url, resolved, sockets,
                   zmq_socket, atexit_hooks, exited, opened, printed>>

\* ------------------------------------------------- ViewerWindow operations
\* A caller enters a request-bearing method of the window; view is the view
\* a path-addressed command was issued through.
Enters(t, op, view) ==
    call' = [call EXCEPT ![t] = [op |-> op, view |-> view]]

CanCall(t) == t \in callers /\ pc[t] = "ready" /\ ~exited

\* The socket carries a request whose reply has not been received.
InFlight(socks, i) == socks[i].sent > socks[i].received

\* The window's methods behind a lock: a request is sent only when no other
\* caller is inside a request-bearing method.
Request_locked(t, frames, blocked) ==
    /\ CanCall(t)
    /\ \A u \in callers : pc[u] = "ready"
    /\ sockets[zmq_socket].sent < MaxOps
    /\ sockets' = SockSend(sockets, zmq_socket, frames)
    /\ pc' = [pc EXCEPT ![t] = blocked]
    /\ UNCHANGED <<argv, arglist, popen_args,
                   callers, result, error, windows, proc, lines,
                   server_proc, zmq_url, web_url, resolved, zmq_socket,
                   atexit_hooks, exited, views, opened, printed>>

\* A request goes out on the window's socket and the caller blocks in recv.
\* Nothing in the window keeps a second caller from sending while a request
\* is in flight; a zmq socket is not safe for use by two threads at once,
\* so what such a send does is open: the request goes out behind the first
\* one, or the REQ socket refuses it (zmq.ZMQError), or libzmq aborts the
\* process.
Request(t, frames, blocked) ==
    /\ CanCall(t)
    /\ sockets[zmq_socket].sent < MaxOps
    /\ \/ /\ sockets' = SockSend(sockets, zmq_socket, frames)
          /\ pc' = [pc EXCEPT ![t] = blocked]
          /\ UNCHANGED <<error, exited>>
       \/ /\ InFlight(sockets, zmq_socket)
          /\ error' = [error EXCEPT ![t] = "ZMQError"]
          /\ UNCHANGED <<sockets, pc, exited>>
       \/ /\ InFlight(sockets, zmq_socket)
          /\ exited' = TRUE
          /\ UNCHANGED <<sockets, pc, error>>
    /\ UNCHANGED <<argv, arglist, popen_args,
                   callers, result, windows, proc, lines, server_proc,
                   zmq_url, web_url, resolved, zmq_socket, atexit_hooks,
                   views, opened, printed>>

\* A recv that gives up when no reply is there and lets the method return.
Reply_timeout(t, blocked, value) ==
    /\ t \in callers
    /\ pc[t] = blocked
    /\ ~exited
    /\ IF CanRecv(sockets, zmq_socket)
       THEN /\ sockets' = SockRecv(sockets, zmq_socket)
            /\ result' = [result EXCEPT ![t] = value]
       ELSE /\ result' = [result EXCEPT ![t] = None]
            /\ UNCHANGED sockets
    /\ pc' = [pc EXCEPT ![t] = "ready"]
    /\ UNCHANGED <<argv, arglist, popen_args,
                   callers, call, error, windows, proc, lines, server_proc,
                   zmq_url, web_url, resolved, zmq_socket, atexit_hooks,
                   exited, views, opened, printed>>

\* The blocked recv returns; the method returns value.
Reply(t, blocked, value) ==
    /\ t \in callers
    /\ pc[t] = blocked
    /\ ~exited
    /\ CanRecv(sockets, zmq_socket)
    /\ sockets' = SockRecv(sockets, zmq_socket)
    /\ result' = [result EXCEPT ![t] = value]
    /\ pc' = [pc EXCEPT ![t] = "ready"]
    /\ UNCHANGED <<argv, arglist, popen_args,
                   callers, call, error, windows, proc, lines, server_proc,
                   zmq_url, web_url, resolved, zmq_socket, atexit_hooks,
                   exited, views, opened, printed>>

\* wait that sends its request and returns without receiving the reply.
ViewerWindow_wait_no_recv(t) == Request(t, <<B(S_wait)>>, "ready")

\* ViewerWindow.wait, line 89
ViewerWindow_wait(t) == Request(t, <<B(S_wait)>>, "wait_recv")

\* wait that returns "ok" whatever the peer replied.
ViewerWindow_wait_return_fixed(t) == Reply(t, "wait_recv", S_ok)

\* ViewerWindow.wait, line 90
ViewerWindow_wait_return(t) ==
    Reply(t, "wait_recv", Decode(RecvFrame(sockets, zmq_socket)))

\* The parts of a command's request with the path before the kind tag.
SendFrames_path_first(command) ==
    LET cmd_data == Lower(command)
    IN  <<Encode(cmd_data.path), Encode(cmd_data.type), Packb(cmd_data)>>

\* The three parts of a command's request.
SendFrames(command) ==
    LET cmd_data == Lower(command)
    IN  <<Encode(cmd_data.type), Encode(cmd_data.path), Packb(cmd_data)>>

\* ViewerWindow.send, lines 93-98
ViewerWindow_send(t, command) ==
    Request(t, SendFrames(command), "send_recv")

\* ViewerWindow.send, line 99: the reply is dropped.
ViewerWindow_send_return(t) == Reply(t, "send_recv", None)

\* ViewerWindow.get_scene, line 103
ViewerWindow_get_scene(t) == Request(t, <<B(S_get_scene)>>, "scene_recv")

\* ViewerWindow.get_scene, line 105
ViewerWindow_get_scene_return(t) ==
    Reply(t, "scene_recv", Decode(RecvFrame(sockets, zmq_socket)))

\* ViewerWindow.open
ViewerWindow_open(t) ==
    /\ CanCall(t)
    /\ opened' = opened \cup {web_url}
    /\ UNCHANGED <<argv, arglist, popen_args,
                   callers, pc, call, result, error, windows, proc, lines, server_proc,
                   zmq_url, web_url, resolved, sockets, zmq_socket,
                   atexit_hooks, exited, views, printed>>

\* ---------------------------------------------------- Visualizer methods
\* view_into that does not hand the window on: the new Visualizer builds a
\* window of its own.
view_into_own_window(window, path) ==
    [window |-> <<"<ViewerWindow 2>">>, path |-> path]

\* Visualizer.view_into
view_into(window, path) ==
    [Visualizer_init_window(window) EXCEPT !.path = path]

\* Visualizer.__getitem__
Visualizer_getitem(t, v, seg) ==
    /\ CanCall(t)
    /\ Cardinality(views) < MaxViews
    /\ views' = views \cup {view_into(v.window, PathAppend(v.path, seg))}
    /\ UNCHANGED <<argv, arglist, popen_args,
                   callers, pc, call, result, error, windows, proc, lines,
                   server_proc, zmq_url, web_url, resolved, sockets,
                   zmq_socket, atexit_hooks, exited, opened, printed>>

\* url that asks the server for the URL on every call.
Visualizer_url_asks_again(t, v) ==
    /\ v \in views
    /\ Enters(t, "url", NoView)
    /\ Request(t, <<B(S_url)>>, "wait_recv")

\* Visualizer.url
Visualizer_url(t, v) ==
    /\ CanCall(t)
    /\ result' = [result EXCEPT ![t] = web_url]
    /\ UNCHANGED <<argv, arglist, popen_args,
                   callers, pc, call, error, windows, proc, lines, server_proc,
                   zmq_url, web_url, resolved, sockets, zmq_socket,
                   atexit_hooks, exited, views, opened, printed>>

\* Visualizer.open
Visualizer_open(t, v) == v \in views /\ ViewerWindow_open(t)

\* Visualizer.wait
Visualizer_wait(t, v) ==
    v \in views /\ Enters(t, "wait", NoView) /\ ViewerWindow_wait(t)

\* Visualizer.static_html
Visualizer_static_html(t, v) ==
    v \in views /\ Enters(t, "get_scene", NoView) /\ ViewerWindow_get_scene(t)

\* Visualizer.set_object
Visualizer_set_object(t, v) ==
    /\ Enters(t, "set_object", v)
    /\ ViewerWindow_send(t, SetObject(Geometry, Material, v.path))

\* set_transform addressed to the root path instead of the view's path.
Visualizer_set_transform_root(t, v) ==
    /\ Enters(t, "set_transform", v)
    /\ ViewerWindow_send(t, SetTransform(Matrix, RootPath))

\* Visualizer.set_transform
Visualizer_set_transform(t, v) ==
    /\ Enters(t, "set_transform", v)
    /\ ViewerWindow_send(t, SetTransform(Matrix, v.path))

\* Visualizer.set_animation: the command is built without the view's path.
Visualizer_set_animation(t, v) ==
    /\ Enters(t, "set_animation", v)
    /\ ViewerWindow_send(t, SetAnimation(Animation, TRUE, 1))

\* Visualizer.delete
Visualizer_delete(t, v) ==
    /\ Enters(t, "delete", v)
    /\ ViewerWindow_send(t, Delete(v.path))

\* Visualizer.close: ViewerWindow defines no close, so looking the
\* attribute up raises AttributeError and nothing is released.
Visualizer_close(t, v) ==
    /\ CanCall(t)
    /\ error' = [error EXCEPT ![t] = "AttributeError"]
    /\ UNCHANGED <<argv, arglist, popen_args,
                   callers, pc, call, result, windows, proc, lines,
                   server_proc, zmq_url, web_url, resolved, sockets,
                   zmq_socket, atexit_hooks, exited, views, opened, printed>>

\* A caller uses the window without a view.
Window_wait(t) == Enters(t, "wait", NoView) /\ ViewerWindow_wait(t)

Window_send(t, command) ==
    Enters(t, "send", NoView) /\ ViewerWindow_send(t, command)

\* ------------------------------------------------------------ process exit
\* cleanup(), lines 51-53: kill the server and wait for it.
cleanup(p) == [p EXCEPT !.state = "reaped"]

\* The client process exits and the interpreter runs the atexit hooks.
Exit ==
    /\ ~exited
    /\ pc[Main] \in {"ready", "failed"}
    /\ exited' = TRUE
    /\ proc' = IF "cleanup" \in atexit_hooks THEN cleanup(proc) ELSE proc
    /\ UNCHANGED <<argv, arglist, popen_args,
                   callers, pc, call, result, error, windows, lines,
                   server_proc, zmq_url, web_url, resolved, sockets,
                   zmq_socket, atexit_hooks, views, opened, printed>>

\* -------------------------------------------------- argument list objects
\* Lines 40-43 building the server's arguments in the caller's list object:
\* what the caller's list holds after the call.
ArgsAfterInit_in_place(zu, start_server, args) ==
    IF start_server THEN ServerArgs(zu, args) ELSE args

\* What the list object passed as args holds after ViewerWindow.__init__:
\* line 40 binds the local name to a new list (the result of +), and the
\* appends of lines 42-43 go to that new list.
ArgsAfterInit(zu, start_server, args) == args

\* The argument handling of one ViewerWindow(zu, start_server, args) call,
\* args being the list object r: lines 38-47 hand the built list to Popen.
ViewerWindow_init_args(zu, start_server, r) ==
    /\ Len(popen_args) < MaxSpawns
    /\ ~start_server => zu # None
    /\ popen_args' = IF start_server
                     THEN Append(popen_args, ServerArgs(zu, arglist[r]))
                     ELSE popen_args
    /\ arglist' = [arglist EXCEPT ![r] = ArgsAfterInit(zu, start_server, @)]
    /\ UNCHANGED <<argv, callers, pc, call, result, error, windows, proc,
                   lines, server_proc, zmq_url, web_url, resolved, sockets,
                   zmq_socket, atexit_hooks, exited, views, opened, printed>>

\* The argument handling of one Visualizer(zmq_url=zu, args=r) call; r is
\* the default list when the caller passes no args.
Visualizer_init_args(zu, r) == ViewerWindow_init_args(zu, zu = None, r)

\* A caller makes one constructor call after another.
InitArgs ==
    /\ Fresh
    /\ callers = {Main}
    /\ argv = NoArgv
    /\ arglist = InitialArgs

NextArgs ==
    \/ \E zu \in {None, ZmqArg}, ss \in BOOLEAN :
          ViewerWindow_init_args(zu, ss, CallerArgs)
    \/ \E zu \in {None, ZmqArg}, r \in {DefaultArgs, CallerArgs} :
          Visualizer_init_args(zu, r)

SpecArgs == InitArgs /\ [][NextArgs]_vars

\* ------------------------------------------------------ command-line entry
\* The words a command line is made of, and the command lines.
S_script == <<"v", "i", "s", "u", "a", "l", "i", "z", "e", "r", ".", "p", "y">>
ArgvWords == {ZmqArg, <<"-", "x">>, <<"-", "y">>}

RECURSIVE WordSeqs(_)
WordSeqs(n) ==
    IF n = 0 THEN {<<>>}
    ELSE WordSeqs(n - 1)
            \cup {Append(ws, w) : ws \in {x \in WordSeqs(n - 1) : Len(x) = n - 1},
                                 w \in ArgvWords}

ArgvSet == {<<S_script>> \o ws : ws \in WordSeqs(MaxArgv)}

\* Lines 204-210: the endpoint and the argument list __main__ works out of
\* sys.argv.
MainZmqUrl(av) == IF Len(av) > 1 THEN av[2] ELSE None
MainArgs(av) == IF Len(av) > 2 THEN SubSeq(av, 3, Len(av)) ELSE <<>>

\* The parameters of ViewerWindow.__init__ after self; none has a default.
InitParams == <<"zmq_url", "start_server", "args">>

\* A call ViewerWindow(*posargs): Python binds the positional arguments to
\* the parameters before the body runs and raises TypeError when their
\* numbers differ.
ViewerWindow_call(posargs) ==
    IF Len(posargs) = Len(InitParams)
    THEN ViewerWindow_init(posargs[1], posargs[2], posargs[3], "ViewerWindow")
    ELSE /\ pc[Main] = "new"
         /\ ~exited
         /\ InitRaises("TypeError")
         /\ UNCHANGED <<argv, arglist, popen_args,
                        callers, call, result, windows, proc, lines,
                        server_proc, zmq_url, web_url, resolved, sockets,
                        zmq_socket, atexit_hooks, exited, views, opened,
                        printed>>

\* Lines 204-212 of the script: the constructor call of line 212 hands over
\* four positional arguments.
main ==
    /\ argv # NoArgv
    /\ ViewerWindow_call(<<MainZmqUrl(argv), MainZmqUrl(argv) = None, TRUE,
                           MainArgs(argv)>>)

\* The module runs as a script with some command line.
InitMain ==
    /\ Fresh
    /\ callers = {Main}
    /\ argv \in ArgvSet
    /\ arglist = InitialArgs

\* ---------------------------------------------------------- specification
Next ==
    \/ \E zu \in {None, ZmqArg}, ss \in BOOLEAN, a \in ArgLists :
          ViewerWindow_init(zu, ss, a, "ViewerWindow")
    \/ \E zu \in {None, ZmqArg}, a \in ArgLists : Visualizer_init(zu, a)
    \/ \E line \in ServerLines : ViewerWindow_init_readline1(line)
    \/ \E line \in ServerLines : ViewerWindow_init_readline2(line)
    \/ ViewerWindow_init_recv_url
    \/ \E i \in 1..Len(sockets) : \E p \in Payloads : PeerReply(i, p)
    \/ \E t \in callers : Visualizer_new(t)
    \/ \E t \in callers : Window_wait(t)
    \/ \E t \in callers : \E c \in DirectCommands : Window_send(t, c)
    \/ \E t \in callers : ViewerWindow_wait_return(t)
    \/ \E t \in callers : ViewerWindow_send_return(t)
    \/ \E t \in callers : ViewerWindow_get_scene_return(t)
    \/ \E t \in callers : \E v \in views : \E seg \in Segs :
          Visualizer_getitem(t, v, seg)
    \/ \E t \in callers : \E v \in views : Visualizer_url(t, v)
    \/ \E t \in callers : \E v \in views : Visualizer_open(t, v)
    \/ \E t \in callers : \E v \in views : Visualizer_wait(t, v)
    \/ \E t \in callers : \E v \in views : Visualizer_static_html(t, v)
    \/ \E t \in callers : \E v \in views : Visualizer_set_object(t, v)
    \/ \E t \in callers : \E v \in views : Visualizer_set_transform(t, v)
    \/ \E t \in callers : \E v \in views : Visualizer_set_animation(t, v)
    \/ \E t \in callers : \E v \in views : Visualizer_delete(t, v)
    \/ \E t \in callers : \E v \in views : Visualizer_close(t, v)
    \/ Exit

Spec == Init /\ [][Next]_vars

\* ------------------------------------------------------------- properties
\* The constructor has returned a window.
Constructed ==
    pc[Main] \notin {"new", "readline1", "readline2", "url_recv", "failed"}

SpawnMode == server_proc = ProcRef
AttachMode == server_proc = None

HasPrefix(s, prefix) ==
    Len(s) >= Len(prefix) /\ SubSeq(s, 1, Len(prefix)) = prefix

MutationOps == {"set_object", "set_transform", "set_animation", "delete"}

\* C1: with a single caller every socket has at most one request in flight:
\* the replies received never outnumber the requests sent, a request is
\* sent only when every earlier request of that socket has had its reply
\* received, and what is in flight is one request at the peer or one reply
\* on its way back.
C1_OneRequestInFlight ==
    \A i \in 1..Len(sockets) :
        /\ sockets[i].received <= sockets[i].sent
        /\ sockets[i].sent <= sockets[i].received + 1
        /\ Len(sockets[i].pending) + Len(sockets[i].inbox)
              = sockets[i].sent - sockets[i].received

\* An attach-mode window whose "url" request was answered on the first
\* socket and whose second socket carried two complete exchanges.
C1_Witness ==
    /\ Len(sockets) = 2
    /\ sockets[1].sent = 1 /\ sockets[1].received = 1
    /\ sockets[2].sent = 2 /\ sockets[2].received = 2

\* C2: a call of Visualizer.close raises nothing and leaves a server process
\* the window spawned no longer running, on the first call and on any later
\* one.
C2_CloseTerminatesProcess ==
    [][(SpawnMode /\ \E t \in callers, v \in views : Visualizer_close(t, v))
          => /\ \A t \in callers : error'[t] = "none"
             /\ proc'.state # "running"]_vars

\* C3: whenever the client process has exited, a server process that the
\* constructor spawned has been killed and reaped by a registered hook,
\* whichever way construction went after the spawn.
C3_SpawnedServerReapedAtExit ==
    (exited /\ proc.state # "none")
        => ("cleanup" \in atexit_hooks /\ proc.state = "reaped")

\* C4: attach mode connects to the caller's endpoint, sends "url" on that
\* socket, stores the reply as web_url and then connects once more; there
\* are two connects in all, one "url" request, and the first socket carries
\* nothing but that request.
C4_AttachSequence ==
    AttachMode =>
        /\ pc[Main] = "url_recv" =>
              /\ Len(sockets) = 1
              /\ zmq_socket = 1
              /\ sockets[1].sent = 1 /\ sockets[1].received = 0
              /\ web_url = Unset
        /\ Constructed =>
              /\ Len(sockets) = 2
              /\ zmq_socket = 2
              /\ sockets[1].received = 1
              /\ web_url = WebReply
              /\ sockets[2].last # <<B(S_url)>>
        /\ Len(sockets) >= 1 =>
              /\ sockets[1].endpoint = ZmqArg
              /\ sockets[1].sent = 1
              /\ sockets[1].last = <<B(S_url)>>
        /\ Len(sockets) >= 2 => sockets[2].endpoint = ZmqArg

\* An attach-mode window after construction, with a command answered on its
\* second socket.
C4_Witness ==
    /\ AttachMode
    /\ Constructed
    /\ sockets[2].received >= 1
    /\ sockets[2].last[1] = B(S_set_transform)

\* C5: spawn mode matches the first line it reads against the zmq_url
\* pattern and the second against the web_url pattern and reads no third; a
\* constructed window has read exactly two lines and holds what follows the
\* two prefixes, and a line that does not start with its prefix (a web_url
\* line in first place included) makes the constructor fail for good.
C5_Handshake ==
    /\ Len(lines) <= 2
    /\ (SpawnMode /\ Constructed) =>
          /\ Len(lines) = 2
          /\ lines[1] = ZMQ_PATTERN_PREFIX \o zmq_url \o <<"\n">>
          /\ lines[2] = WEB_PATTERN_PREFIX \o web_url \o <<"\n">>
    /\ (Constructed /\ lines = <<LineZmq, LineWeb>>) =>
          /\ zmq_url = ZmqExample
          /\ web_url = WebExample
    /\ (Len(lines) >= 1 /\ ~HasPrefix(lines[1], ZMQ_PATTERN_PREFIX)) =>
          /\ pc[Main] = "failed"
          /\ error[Main] = "ValueError"
    /\ (Len(lines) = 2 /\ ~HasPrefix(lines[2], WEB_PATTERN_PREFIX)) =>
          /\ pc[Main] = "failed"
          /\ error[Main] = "ValueError"
          /\ zmq_url = ZmqExample

\* The constructor failed on a second line that is a zmq_url line, after the
\* first line had matched.
C5_Witness ==
    /\ lines = <<LineZmq, LineZmq>>
    /\ pc[Main] = "failed"
    /\ exited

\* C6: when the first or the second line of the spawned server does not
\* start with its prefix, the window has no socket: connect_zmq did not run
\* and no request was sent.
C6_NoSessionOnBadHandshake ==
    (\/ Len(lines) >= 1 /\ ~HasPrefix(lines[1], ZMQ_PATTERN_PREFIX)
     \/ Len(lines) = 2 /\ ~HasPrefix(lines[2], WEB_PATTERN_PREFIX))
        => /\ sockets = <<>>
           /\ zmq_socket = 0
           /\ ~Constructed

\* The first line was "garbage" and the client process has since exited.
C6_Witness ==
    /\ lines = <<LineGarbage>>
    /\ pc[Main] = "failed"
    /\ exited

S_meshcat_box == S_meshcat \o <<"/">> \o S_box

\* C7: a call of ViewerWindow.send puts exactly one request on the socket,
\* of three parts (kind tag, path string, packed command), and returns None
\* after receiving exactly one reply; nothing else is sent or received.
C7_SendOneRequestOneReply ==
    [][\A t \in callers :
          /\ (pc[t] = "ready" /\ pc'[t] = "send_recv") =>
                LET before == sockets[zmq_socket]
                    after == sockets'[zmq_socket]
                IN  /\ after.sent = before.sent + 1
                    /\ after.received = before.received
                    /\ Len(after.last) = 3
                    /\ after.last[1] = B(after.last[3].of.type)
                    /\ after.last[2] = B(after.last[3].of.path)
                    /\ after.last[3].bytes = <<"msgpack">>
                    /\ after.last[1].bytes \in
                          {S_set_object, S_set_transform, S_set_animation, S_delete}
                    /\ call'[t].op = "send" =>
                          /\ after.last[1] = B(S_set_transform)
                          /\ after.last[2] = B(S_meshcat_box)
                    /\ Len(sockets') = Len(sockets)
          /\ (pc[t] = "send_recv" /\ pc'[t] = "ready") =>
                /\ sockets'[zmq_socket].received = sockets[zmq_socket].received + 1
                /\ sockets'[zmq_socket].sent = sockets[zmq_socket].sent
                /\ sockets'[zmq_socket].last = sockets[zmq_socket].last
                /\ result'[t] = None
                /\ error'[t] = error[t]
          /\ pc[t] = "send_recv" =>
                /\ sockets[zmq_socket].sent = sockets[zmq_socket].received + 1
                /\ zmq_socket' = zmq_socket]_vars

\* Two calls of send on a window returned: two requests, two replies, the
\* last one the set_transform of meshcat/box.
C7_Witness ==
    /\ pc[Main] = "ready"
    /\ call[Main].op = "send"
    /\ sockets[zmq_socket].sent = 2
    /\ sockets[zmq_socket].received = 2
    /\ sockets[zmq_socket].last[2] = B(S_meshcat_box)
    /\ result[Main] = None

\* The path string and the packed path of the request a caller is blocked on.
SentPath(t) == sockets[zmq_socket].last[2]
PackedPath(t) == sockets[zmq_socket].last[3].of.path

C9_ChildViews ==
    /\ [](/\ windows <= 1
          /\ \A v \in views :
                /\ v.window = WindowRef
                /\ \/ v.path = RootPath
                   \/ \E u \in views, seg \in Segs : v.path = u.path \o <<seg>>
          /\ \A t \in callers :
                (pc[t] = "send_recv" /\ call[t].op \in {"set_transform", "delete"}) =>
                    \A u \in views :
                        (SentPath(t) = B(PathLower(u.path))) <=> (u = call[t].view))
    /\ [][(Constructed /\ views' # views) =>
             /\ views \subseteq views'
             /\ Cardinality(views') = Cardinality(views) + 1
             /\ UNCHANGED <<windows, proc, server_proc, sockets, zmq_socket,
                            zmq_url, web_url>>]_vars

\* The views meshcat, meshcat/a and meshcat/b exist and a delete issued
\* through meshcat/b is on the wire.
C9_Witness ==
    /\ {[window |-> WindowRef, path |-> RootPath],
        [window |-> WindowRef, path |-> <<S_meshcat, <<"a">>>>],
        [window |-> WindowRef, path |-> <<S_meshcat, <<"b">>>>]} \subseteq views
    /\ pc[Main] = "send_recv"
    /\ call[Main].op = "delete"
    /\ call[Main].view.path = <<S_meshcat, <<"b">>>>

\* C10: web_url is assigned once, by the constructor: from the second
\* handshake line in spawn mode, from the reply to the one "url" request in
\* attach mode; afterwards it keeps the value the constructor printed and
\* no socket in use carries a "url" request.
C10_UrlResolvedOnce ==
    /\ resolved <= 1
    /\ ~Constructed => (resolved = 0 /\ web_url = Unset /\ printed = <<>>)
    /\ Constructed =>
          /\ resolved = 1
          /\ printed = <<web_url>>
          /\ web_url = IF SpawnMode THEN WebExample ELSE WebReply
          /\ sockets[zmq_socket].last # <<B(S_url)>>
    /\ \A i \in 1..Len(sockets) :
          sockets[i].last = <<B(S_url)>> => (AttachMode /\ i = 1 /\ sockets[i].sent = 1)

\* After construction url() returned the URL, open() handed it to the
\* browser and two requests were answered.
C10_Witness ==
    /\ Constructed
    /\ result[Main] = web_url
    /\ opened = {web_url}
    /\ Cardinality(views) >= 2
    /\ sockets[zmq_socket].received = 2

\* C11: wait sends one single-part "wait" request and receives nothing with
\* it; a caller blocked in wait leaves it only when a reply of the peer is
\* there, and what wait then returns is the payload of that reply, for
\* ViewerWindow.wait and for Visualizer.wait on any view alike.
C11_WaitReturnsReply ==
    [][\A t \in callers :
          /\ (pc[t] = "ready" /\ pc'[t] = "wait_recv") =>
                /\ call'[t].op = "wait"
                /\ sockets'[zmq_socket].sent = sockets[zmq_socket].sent + 1
                /\ sockets'[zmq_socket].received = sockets[zmq_socket].received
                /\ sockets'[zmq_socket].last = <<B(S_wait)>>
                /\ sockets'[zmq_socket].pending = <<(<<B(S_wait)>>)>>
                /\ Len(sockets') = Len(sockets)
          /\ (pc[t] = "wait_recv" /\ pc'[t] = "ready") =>
                /\ sockets[zmq_socket].inbox # <<>>
                /\ sockets[zmq_socket].pending = <<>>
                /\ result'[t] = Head(sockets[zmq_socket].inbox).bytes
                /\ result'[t] \in {S_ok, S_meshcat}
                /\ sockets'[zmq_socket].received
                      = sockets[zmq_socket].received + 1
                /\ sockets'[zmq_socket].sent = sockets[zmq_socket].sent
          /\ (pc[t] = "wait_recv" /\ sockets[zmq_socket].inbox = <<>>) =>
                pc'[t] = "wait_recv"]_vars

\* wait returned "meshcat", the reply the peer sent to it, on a window that
\* has views.
C11_Witness ==
    /\ pc[Main] = "ready"
    /\ call[Main].op = "wait"
    /\ result[Main] = S_meshcat
    /\ sockets[zmq_socket].received >= 1
    /\ sockets[zmq_socket].last = <<B(S_wait)>>
    /\ views # {}

\* Where a caller stands while it is blocked in recv, per operation:
\* request_web_url, wait, send, get_scene.
BlockedPcs == {"url_recv", "wait_recv", "send_recv", "scene_recv"}

\* The caller's blocked operation returns.
Returns(t) == pc[t] \in BlockedPcs /\ pc'[t] = "ready"

\* C13: while a caller is blocked in request_web_url, wait, send or
\* get_scene its request has been sent once and is the one unanswered
\* request of the socket; as long as no reply of the peer is there the
\* caller stays where it is, nothing is sent again, no socket is created,
\* nothing is returned or raised; the operation returns only by receiving
\* a reply, and when a reply is there it can return.
C13_NoTimeoutNoRetry ==
    /\ [](\A t \in callers :
            (pc[t] \in BlockedPcs /\ ~exited) =>
                /\ sockets[zmq_socket].sent = sockets[zmq_socket].received + 1
                /\ sockets[zmq_socket].inbox # <<>> =>
                      ENABLED (Next /\ Returns(t)))
    /\ [][\A t \in callers :
            pc[t] \in BlockedPcs =>
                /\ sockets[zmq_socket].inbox = <<>> =>
                      /\ pc'[t] = pc[t]
                      /\ result'[t] = result[t]
                      /\ error'[t] = error[t]
                /\ pc'[t] = pc[t] =>
                      /\ zmq_socket' = zmq_socket
                      /\ Len(sockets') = Len(sockets)
                      /\ sockets'[zmq_socket].sent = sockets[zmq_socket].sent
                      /\ sockets'[zmq_socket].received
                            = sockets[zmq_socket].received
                /\ pc'[t] # pc[t] =>
                      /\ Returns(t)
                      /\ sockets[zmq_socket].inbox # <<>>
                      /\ sockets'[zmq_socket].sent = sockets[zmq_socket].sent
                      /\ sockets'[zmq_socket].received
                            = sockets[zmq_socket].received + 1]_vars

\* A caller is blocked in get_scene, its second request on the socket, and
\* the peer has not replied: the request is with the peer, sent once.
C13_Witness ==
    /\ pc[Main] = "scene_recv"
    /\ sockets[zmq_socket].sent = 2
    /\ sockets[zmq_socket].received = 1
    /\ sockets[zmq_socket].pending = <<(<<B(S_get_scene)>>)>>
    /\ sockets[zmq_socket].inbox = <<>>

\* The script: its one constructor call, then the exit of the process (an
\* uncaught exception ends it).
NextMain ==
    \/ main
    \/ Exit

SpecMain == InitMain /\ [][NextMain]_vars

\* C12: once the script has made its constructor call, a window is there
\* and nothing was raised; when the command line has arguments after the
\* endpoint, a server process was spawned and each of them is in its
\* argument list.
C12_CLIForwardsTrailingArgs ==
    (argv # NoArgv /\ pc[Main] # "new") =>
        /\ error[Main] = "none"
        /\ windows = 1
        /\ Len(argv) > 2 =>
              /\ proc.state # "none"
              /\ \A i \in 3..Len(argv) :
                    \E j \in 1..Len(proc.args) : proc.args[j] = argv[i]

\* The argument list ends with the pair --zmq-url <endpoint>.
HasOverride(server_args, endpoint) ==
    /\ Len(server_args) >= 2
    /\ server_args[Len(server_args) - 1] = S_zmq_flag
    /\ server_args[Len(server_args)] = endpoint

\* The argument list holds --zmq-url somewhere.
HasFlag(server_args) ==
    \E j \in 1..Len(server_args) : server_args[j] = S_zmq_flag

\* C15: Visualizer(window=w) spawns nothing, connects nothing and sends
\* nothing; Visualizer() without window and zmq_url enters spawn mode (one
\* subprocess, no socket yet, one connect and no "url" request once
\* constructed); Visualizer(zmq_url=u) enters attach mode (no subprocess,
\* server_proc None).  A spawned server is handed --zmq-url <endpoint>
\* exactly when ViewerWindow was called with start_server true and an
\* endpoint that is not None.
C15_EntryModeSelection ==
    /\ [](/\ (SpawnMode /\ Constructed) =>
                /\ Len(popen_args) = 1
                /\ Len(sockets) = 1
                /\ sockets[1].last # <<B(S_url)>>
          /\ AttachMode => (proc = NoProc /\ popen_args = <<>>))
    /\ [][/\ \A t \in callers :
                Visualizer_new(t) =>
                    UNCHANGED <<windows, proc, popen_args, server_proc,
                                sockets, zmq_socket, zmq_url, web_url>>
          /\ \A zu \in {None, ZmqArg}, a \in ArgLists :
                Visualizer_init(zu, a) =>
                    IF zu = None
                    THEN /\ SpawnMode'
                         /\ proc'.state = "running"
                         /\ popen_args' = <<ServerCommand \o a>>
                         /\ sockets' = <<>>
                    ELSE /\ AttachMode'
                         /\ proc' = NoProc
                         /\ popen_args' = <<>>
                         /\ zmq_url' = zu
                         /\ Len(sockets') = 1
          /\ \A zu \in {None, ZmqArg}, ss \in BOOLEAN, a \in ArgLists :
                ViewerWindow_init(zu, ss, a, "ViewerWindow") =>
                    /\ SpawnMode' <=> ss
                    /\ AttachMode' <=> ~ss
                    /\ (ss /\ zu # None) <=>
                          /\ Len(popen_args') = 1
                          /\ HasOverride(popen_args'[1], zu)
                    /\ (ss /\ zu = None) =>
                          /\ Len(popen_args') = 1
                          /\ ~HasFlag(popen_args'[1])
                    /\ ~ss => popen_args' = <<>>]_vars

\* A window built by ViewerWindow(tcp://h:6, True, [-x]) has completed its
\* handshake: its server was started with -x --zmq-url tcp://h:6.
C15_Witness ==
    /\ SpawnMode
    /\ Constructed
    /\ popen_args = <<ServerCommand \o <<(<<"-", "x">>), S_zmq_flag, ZmqArg>>>>
    /\ Len(sockets) = 1

\* C16: a constructed window, in either mode, has zmq_url and web_url set
\* and its socket connected to zmq_url; a caller can call a method only on
\* a constructed window; in spawn mode no socket exists before both
\* handshake lines were read and matched, and whenever a socket exists in
\* spawn mode both URLs are set.
C16_ConstructedIsConnected ==
    /\ Constructed =>
          /\ zmq_url \notin {Unset, None}
          /\ web_url \notin {Unset, None}
          /\ zmq_socket = Len(sockets)
          /\ zmq_socket >= 1
          /\ sockets[zmq_socket].endpoint = zmq_url
          /\ ~sockets[zmq_socket].closed
    /\ \A t \in callers : CanCall(t) => Constructed
    /\ \A t \in callers : pc[t] \in BlockedPcs \ {"url_recv"} => Constructed
    /\ (SpawnMode /\ sockets # <<>>) =>
          /\ Len(lines) = 2
          /\ HasPrefix(lines[1], ZMQ_PATTERN_PREFIX)
          /\ HasPrefix(lines[2], WEB_PATTERN_PREFIX)
          /\ zmq_url # Unset
          /\ web_url # Unset
          /\ Constructed
    /\ (SpawnMode /\ ~Constructed) => (sockets = <<>> /\ zmq_socket = 0)

\* A spawn-mode window is constructed and a command is on its way on the
\* socket connected to the endpoint the server announced.
C16_Witness ==
    /\ SpawnMode
    /\ pc[Main] = "send_recv"
    /\ zmq_url = ZmqExample
    /\ web_url = WebExample
    /\ sockets[zmq_socket].endpoint = ZmqExample
    /\ sockets[zmq_socket].pending # <<>>

InitMT ==
    /\ Fresh
    /\ callers = {Main, Other}
    /\ argv = NoArgv
    /\ arglist = InitialArgs

\* The main thread builds a Visualizer and makes child views of it; both
\* threads call wait, static_html and set_transform on these views with
\* nothing serializing them.
NextMT ==
    \/ \E zu \in {None, ZmqArg} : Visualizer_init(zu, <<>>)
    \/ \E line \in ServerLines : ViewerWindow_init_readline1(line)
    \/ \E line \in ServerLines : ViewerWindow_init_readline2(line)
    \/ ViewerWindow_init_recv_url
    \/ \E i \in 1..Len(sockets) : \E p \in Payloads : PeerReply(i, p)
    \/ \E t \in callers : ViewerWindow_wait_return(t)
    \/ \E t \in callers : ViewerWindow_send_return(t)
    \/ \E t \in callers : ViewerWindow_get_scene_return(t)
    \/ \E v \in views : Visualizer_getitem(Main, v, <<"a">>)
    \/ \E t \in callers : \E v \in views : Visualizer_wait(t, v)
    \/ \E t \in callers : \E v \in views : Visualizer_static_html(t, v)
    \/ \E t \in callers : \E v \in views : Visualizer_set_transform(t, v)

SpecMT == InitMT /\ [][NextMT]_vars

\* The caller sends a request now.
SendsNow(t) ==
    /\ pc'[t] \in BlockedPcs
    /\ sockets'[zmq_socket].sent = sockets[zmq_socket].sent + 1

PristineServerArgs ==
    {ServerArgs(zu, InitialArgs[r]) :
        zu \in {None, ZmqArg}, r \in {DefaultArgs, CallerArgs}}

\* C18: after any sequence of constructor calls the default args list of
\* Visualizer is still empty and the caller's list holds what it held; the
\* list handed to each spawned server is the interpreter prefix, the
\* call's own args and, when an endpoint was given, the --zmq-url pair,
\* and earlier lists are left as they were.
C18_ArgsNotModified ==
    /\ [](/\ arglist[DefaultArgs] = <<>>
          /\ arglist = InitialArgs
          /\ \A i \in 1..Len(popen_args) : popen_args[i] \in PristineServerArgs)
    /\ [][/\ \A i \in 1..Len(popen_args) : popen_args'[i] = popen_args[i]
          /\ \A zu \in {None, ZmqArg}, ss \in BOOLEAN,
                r \in {DefaultArgs, CallerArgs} :
                (ss /\ ViewerWindow_init_args(zu, ss, r)) =>
                    popen_args'[Len(popen_args')]
                       = ServerCommand \o InitialArgs[r]
                            \o (IF zu = None THEN <<>> ELSE <<S_zmq_flag, zu>>)]_vars

\* Three servers were spawned in a row: by Visualizer() with the default
\* list, by ViewerWindow(tcp://h:6, True, args) with the caller's list and
\* by Visualizer() again; the third was handed the bare server command.
C18_Witness ==
    /\ Len(popen_args) = 3
    /\ popen_args[1] = ServerCommand
    /\ popen_args[2] = ServerCommand \o <<(<<"-", "x">>), S_zmq_flag, ZmqArg>>
    /\ popen_args[3] = ServerCommand

====
